---- MODULE Spec2Model ----
(***************************************************************************)
(* Turn-resolution core of the roguelike: GameMap (game_map.py), Entity /  *)
(* Actor / Item (entity.py) and the Action hierarchy (actions.py).         *)
(*                                                                         *)
(* Every Python call is one action of the model.  The call in progress and *)
(* how it ended are kept in `call`, so that a property can speak about the *)
(* state a call leaves behind; the caller then drops the finished call     *)
(* (Return) before it makes the next one.                                  *)
(***************************************************************************)
EXTENDS Integers, Sequences, FiniteSets, TLC

\* Bounds of the model -------------------------------------------------------
Width == 3        \* GameMap.width of every map of the model
Height == 2       \* GameMap.height of every map of the model
MaxDelta == 1     \* |dx|, |dy| of an ActionWithDirection

\* The world of the model ----------------------------------------------------
Maps == {"M1", "M2"}
Ents == {"a", "b", "c"}
None == "None"            \* Python's None
Unset == "<unset>"        \* an attribute the instance does not have
NoMap == None             \* place(..., gamemap=None)

Returned == "returned"
AttributeError == "AttributeError"
KeyError == "KeyError"
IndexError == "IndexError"
SystemExit == "SystemExit"

Components == {"fighter", "inventory"}   \* the component objects of an Actor

Deltas == (0 - MaxDelta)..MaxDelta
Xs == (0 - 1)..Width      \* x given to place / looked up; -1 and Width are out of bounds
Ys == (0 - 1)..Height     \* y given to place / looked up; -1 and Height are out of bounds
OwnCells == {<<0, 0>>, <<Width - 1, Height - 1>>}

VARIABLES
    exists,           \* exists[e]: the object e has been constructed
    kind,             \* kind[e]: "Actor", "Item" or "Entity" (its class)
    x, y,             \* Entity.x, Entity.y
    blocks_movement,  \* Entity.blocks_movement
    parent,           \* Entity.parent (a map), Unset while never assigned
    ai,               \* Actor.ai: "ai", or None once cleared
    entities,         \* GameMap.entities, per map
    tiles,            \* GameMap.tiles["walkable"], per map and cell
    visible,          \* GameMap.visible, per map and cell
    explored,         \* GameMap.explored, per map and cell
    comp,             \* comp[e][k]: the component object Actor e holds as k,
                      \* named by the entity it was first made for
    cstate,           \* cstate[<<o, k>>]: the state of component object o of kind k
    call,             \* the call just made: operation, arguments, and the
                      \* acting entity's state before it
    outcome,          \* how the call ended: Returned, or the exception raised
    result,           \* what the call returned
    printed,          \* the entity named by the message the call printed
    setops,           \* the set.remove / set.add calls it made, in order
    lookups,          \* the grid cells it read one by one: grid, map, index
    frame             \* what render wrote to the console

vars == <<exists, kind, x, y, blocks_movement, parent, ai, entities, tiles,
          visible, explored, comp, cstate,
          call, outcome, result, printed, setops, lookups, frame>>

\* Nothing written to the console.
NoFrame == [bg |-> <<>>, drawn |-> <<>>]

\* No call in progress.
NoCall ==
    [op |-> "none", e |-> None, a |-> 0, b |-> 0, m |-> None,
     x0 |-> 0, y0 |-> 0, parent0 |-> None, maps0 |-> {}]

\* The record of a call on entity e with integer arguments a, b and map m,
\* taken before the call changes anything.
Called(op, e, a, b, m) ==
    [op |-> op, e |-> e, a |-> a, b |-> b, m |-> m,
     x0 |-> IF e \in Ents THEN x[e] ELSE 0,
     y0 |-> IF e \in Ents THEN y[e] ELSE 0,
     parent0 |-> IF e \in Ents THEN parent[e] ELSE None,
     maps0 |-> IF e \in Ents THEN {mm \in Maps : e \in entities[mm]} ELSE {}]

\* Iteration orders of a Python set: every arrangement of its members.
OrdersOf(S) ==
    {s \in [1..Cardinality(S) -> S] :
        \A i, j \in 1..Cardinality(S) : i # j => s[i] # s[j]}

Min(S) == CHOOSE i \in S : \A j \in S : i <= j

\* game_map.py ---------------------------------------------------------------

\* GameMap.in_bounds
in_bounds(m, px, py) ==
    0 <= px /\ px < Width /\ 0 <= py /\ py < Height

\* GameMap.gamemap
GameMap_gamemap(m) == m

\* is_alive with the handle never looked at
is_alive_always(e) == TRUE

\* Actor.is_alive: bool(self.ai)
is_alive(e) == ai[e] # None

\* actors without the is_alive filter: every Actor of the set
actors_unfiltered(order) ==
    SelectSeq(order, LAMBDA e : kind[e] = "Actor")

\* GameMap.actors, in iteration order `order` of self.entities
actors(order) ==
    SelectSeq(order, LAMBDA e : kind[e] = "Actor" /\ is_alive(e))

\* GameMap.get_actor_at_location, with self.entities iterated in `order`
get_actor_at_location(order, lx, ly) ==
    LET as == actors(order)
        hits == {i \in DOMAIN as : x[as[i]] = lx /\ y[as[i]] = ly}
    IN  IF hits = {} THEN None
        ELSE IF is_alive(as[Min(hits)]) THEN as[Min(hits)]
        ELSE None

\* get_blocking_entity_at_location without the blocks_movement test
get_blocking_entity_at_location_any(order, lx, ly) ==
    LET hits == {i \in DOMAIN order :
                    x[order[i]] = lx /\ y[order[i]] = ly}
    IN  IF hits = {} THEN None ELSE order[Min(hits)]

\* GameMap.get_blocking_entity_at_location, with self.entities iterated in `order`
get_blocking_entity_at_location(order, lx, ly) ==
    LET hits == {i \in DOMAIN order :
                    /\ blocks_movement[order[i]]
                    /\ x[order[i]] = lx
                    /\ y[order[i]] = ly}
    IN  IF hits = {} THEN None ELSE order[Min(hits)]

\* Entity.render_order: CORPSE unless the constructor of Actor or Item says
\* otherwise.
render_order(e) ==
    IF kind[e] = "Actor" THEN "ACTOR"
    ELSE IF kind[e] = "Item" THEN "ITEM"
    ELSE "CORPSE"

\* RenderOrder, lowest tier first; the value of a tier is its place here.
RenderOrder == <<"CORPSE", "ITEM", "ACTOR">>

\* sorted(self.entities, key=render_order.value): the tiers in ascending
\* order, within a tier the order the set was iterated in.
RECURSIVE sorted_from(_, _)
sorted_from(order, v) ==
    IF v > Len(RenderOrder) THEN <<>>
    ELSE SelectSeq(order, LAMBDA e : render_order(e) = RenderOrder[v])
            \o sorted_from(order, v + 1)

\* An integer index i on an axis of length n: beyond either end it raises
\* IndexError, within them it selects i, counted from the end if negative.
Indexable(i, n) == 0 - n <= i /\ i < n
Index(i, n) == IF i < 0 THEN i + n ELSE i

\* GameMap.render, the loop over the sorted entities from the i-th on: the
\* console.print calls made, the cells of `visible` read, and how it ended.
RECURSIVE render_entities(_, _, _)
render_entities(m, sorted, i) ==
    IF i > Len(sorted)
    THEN [drawn |-> <<>>, lookups |-> {}, outcome |-> Returned]
    ELSE LET e == sorted[i]
             at == <<Index(x[e], Width), Index(y[e], Height)>>
             read == {[grid |-> "visible", m |-> m, at |-> <<x[e], y[e]>>]}
         IN  IF ~Indexable(x[e], Width) \/ ~Indexable(y[e], Height)
             THEN [drawn |-> <<>>, lookups |-> read, outcome |-> IndexError]
             ELSE LET rest == render_entities(m, sorted, i + 1)
                      here == IF visible[m][at]
                              THEN <<[e |-> e, x |-> x[e], y |-> y[e]]>>
                              ELSE <<>>
                  IN  [drawn |-> here \o rest.drawn,
                       lookups |-> read \cup rest.lookups,
                       outcome |-> rest.outcome]

\* GameMap.render
GameMap_render(m, order) ==
    LET es == render_entities(m, sorted_from(order, 1), 1)
    IN  /\ frame' =
            [bg |-> [c \in (0..(Width - 1)) \X (0..(Height - 1)) |->
                        IF visible[m][c] THEN "lit"
                        ELSE IF explored[m][c] THEN "unlit"
                        ELSE "FOG"],
             drawn |-> es.drawn]
        /\ lookups' = es.lookups
        /\ outcome' = es.outcome

\* entity.py -----------------------------------------------------------------

\* The attributes an Entity instance answers to: those __init__ sets, the
\* class's properties and methods, and `parent` once it has been assigned.
Attributes(e) ==
    {"name", "char", "colour", "x", "y", "blocks_movement", "render_order",
     "gamemap", "spawn", "place", "distance", "move"}
    \cup (IF parent[e] # Unset THEN {"parent"} ELSE {})
    \cup (IF kind[e] = "Actor"
          THEN {"ai", "fighter", "inventory", "is_alive"} ELSE {})
    \cup (IF kind[e] = "Item" THEN {"consumable"} ELSE {})

\* Entity.gamemap: self.parent.gamemap
Entity_gamemap(e) == GameMap_gamemap(parent[e])

\* Entity.__init__ of a plain Entity into the unused object c
Entity_init(c, ex, ey, bm, par) ==
    /\ exists' = [exists EXCEPT ![c] = TRUE]
    /\ kind' = [kind EXCEPT ![c] = "Entity"]
    /\ x' = [x EXCEPT ![c] = ex]
    /\ y' = [y EXCEPT ![c] = ey]
    /\ blocks_movement' = [blocks_movement EXCEPT ![c] = bm]
    /\ ai' = ai
    /\ IF par # None
       THEN /\ parent' = [parent EXCEPT ![c] = par]
            /\ entities' = [entities EXCEPT ![par] = @ \cup {c}]
            /\ setops' = <<[op |-> "add", m |-> par]>>
       ELSE /\ UNCHANGED <<parent, entities>>
            /\ setops' = <<>>
    /\ outcome' = Returned

\* spawn with a copy that shares the template's component objects
spawn_shallow(t, gm, sx, sy, c) ==
    /\ exists' = [exists EXCEPT ![c] = TRUE]
    /\ kind' = [kind EXCEPT ![c] = kind[t]]
    /\ blocks_movement' = [blocks_movement EXCEPT ![c] = blocks_movement[t]]
    /\ ai' = [ai EXCEPT ![c] = ai[t]]
    /\ x' = [x EXCEPT ![c] = sx]
    /\ y' = [y EXCEPT ![c] = sy]
    /\ parent' = [parent EXCEPT ![c] = gm]
    /\ entities' = [entities EXCEPT ![gm] = @ \cup {c}]
    /\ comp' = [comp EXCEPT ![c] = comp[t]]
    /\ cstate' = cstate
    /\ setops' = <<[op |-> "add", m |-> gm]>>
    /\ outcome' = Returned
    /\ result' = c

\* Entity.spawn: the deep copy of template t is the unused object c; the copy
\* reaches the template's components, so the clone gets objects of its own
\* in the state the template's are in.
spawn(t, gm, sx, sy, c) ==
    /\ exists' = [exists EXCEPT ![c] = TRUE]
    /\ kind' = [kind EXCEPT ![c] = kind[t]]
    /\ blocks_movement' = [blocks_movement EXCEPT ![c] = blocks_movement[t]]
    /\ ai' = [ai EXCEPT ![c] = ai[t]]
    /\ x' = [x EXCEPT ![c] = sx]
    /\ y' = [y EXCEPT ![c] = sy]
    /\ parent' = [parent EXCEPT ![c] = gm]
    /\ entities' = [entities EXCEPT ![gm] = @ \cup {c}]
    /\ comp' = [comp EXCEPT ![c] =
                    [k \in Components |->
                        IF comp[t][k] = Unset THEN Unset ELSE c]]
    /\ cstate' = [o \in Ents \X Components |->
                    IF o[1] = c /\ comp[t][o[2]] # Unset
                    THEN cstate[<<comp[t][o[2]], o[2]>>]
                    ELSE cstate[o]]
    /\ setops' = <<[op |-> "add", m |-> gm]>>
    /\ outcome' = Returned
    /\ result' = c

\* place without the removal from the old map's set
place_no_remove(e, px, py, gm) ==
    /\ x' = [x EXCEPT ![e] = px]
    /\ y' = [y EXCEPT ![e] = py]
    /\ IF gm = NoMap
       THEN /\ UNCHANGED <<parent, entities>>
            /\ setops' = <<>>
       ELSE /\ parent' = [parent EXCEPT ![e] = gm]
            /\ entities' = [entities EXCEPT ![gm] = @ \cup {e}]
            /\ setops' = <<[op |-> "add", m |-> gm]>>
    /\ outcome' = Returned

\* Entity.place
place(e, px, py, gm) ==
    /\ x' = [x EXCEPT ![e] = px]
    /\ y' = [y EXCEPT ![e] = py]
    /\ IF gm = NoMap
       THEN /\ UNCHANGED <<parent, entities>>
            /\ setops' = <<>>
            /\ outcome' = Returned
       ELSE IF "parent" \in Attributes(e) /\ parent[e] = Entity_gamemap(e)
       THEN IF e \notin entities[Entity_gamemap(e)]
            THEN \* set.remove of a non-member
                 /\ UNCHANGED <<parent, entities>>
                 /\ setops' = <<>>
                 /\ outcome' = KeyError
            ELSE /\ parent' = [parent EXCEPT ![e] = gm]
                 /\ entities' =
                        [mm \in Maps |->
                            LET removed == IF mm = Entity_gamemap(e)
                                           THEN entities[mm] \ {e}
                                           ELSE entities[mm]
                            IN  IF mm = gm THEN removed \cup {e} ELSE removed]
                 /\ setops' = <<[op |-> "remove", m |-> Entity_gamemap(e)],
                                [op |-> "add", m |-> gm]>>
                 /\ outcome' = Returned
       ELSE /\ parent' = [parent EXCEPT ![e] = gm]
            /\ entities' = [entities EXCEPT ![gm] = @ \cup {e}]
            /\ setops' = <<[op |-> "add", m |-> gm]>>
            /\ outcome' = Returned

\* Entity.move
move(e, dx, dy) ==
    /\ x' = [x EXCEPT ![e] = @ + dx]
    /\ y' = [y EXCEPT ![e] = @ + dy]

\* actions.py ----------------------------------------------------------------

\* Engine.game_map: the map the engine plays on
EngineGameMap == "M1"

\* Action.engine: self.entity.game_map.engine.  The lookup of `game_map` on
\* the entity raises AttributeError unless the entity has that attribute.
Action_engine(e) ==
    IF "game_map" \in Attributes(e)
    THEN [ok |-> TRUE, game_map |-> EngineGameMap]
    ELSE [ok |-> FALSE, game_map |-> None]

\* ActionWithDirection.dest_xy
dest_xy(e, dx, dy) == <<x[e] + dx, y[e] + dy>>

\* ActionWithDirection.blocking_entity, once self.engine has resolved
blocking_entity(order, e, dx, dy) ==
    get_blocking_entity_at_location(order, dest_xy(e, dx, dy)[1],
                                    dest_xy(e, dx, dy)[2])

\* A perform() that ends in an exception before it changed or printed anything.
Raises(err) ==
    /\ outcome' = err
    /\ printed' = None
    /\ lookups' = {}
    /\ UNCHANGED <<x, y>>

\* A perform() that returns without moving or printing.
NoOp ==
    /\ outcome' = Returned
    /\ printed' = None
    /\ UNCHANGED <<x, y>>

\* Escape that returns as any other action does
EscapeAction_perform_returns(e) ==
    /\ outcome' = Returned
    /\ printed' = None
    /\ lookups' = {}
    /\ UNCHANGED <<x, y>>

\* EscapeAction.perform
EscapeAction_perform(e) == Raises(SystemExit)

\* MovementAction.perform that moves without asking the map
MovementAction_perform_unguarded(e, dx, dy) ==
    /\ x' = [x EXCEPT ![e] = @ + dx]
    /\ y' = [y EXCEPT ![e] = @ + dy]
    /\ outcome' = Returned
    /\ printed' = None
    /\ lookups' = {}

\* Movement on the engine's map without the test of the walkable flag
MovementAction_perform_through_walls(e, dx, dy) ==
    LET d == <<x[e] + dx, y[e] + dy>>
    IN  IF ~in_bounds(EngineGameMap, d[1], d[2])
        THEN NoOp /\ lookups' = {}
        ELSE IF \E order \in OrdersOf(entities[EngineGameMap]) :
                    get_blocking_entity_at_location(order, d[1], d[2]) # None
        THEN NoOp /\ lookups' = {}
        ELSE /\ move(e, dx, dy)
             /\ outcome' = Returned
             /\ printed' = None
             /\ lookups' = {}

\* Movement on the engine's map without the test for a blocking entity
MovementAction_perform_onto_blockers(e, dx, dy) ==
    LET d == <<x[e] + dx, y[e] + dy>>
    IN  IF ~in_bounds(EngineGameMap, d[1], d[2])
        THEN NoOp /\ lookups' = {}
        ELSE IF ~tiles[EngineGameMap][d]
        THEN NoOp /\ lookups' = {}
        ELSE /\ move(e, dx, dy)
             /\ outcome' = Returned
             /\ printed' = None
             /\ lookups' = {}

\* Movement on the engine's map that tests for a blocking entity only
MovementAction_perform_off_floor(e, dx, dy) ==
    LET d == <<x[e] + dx, y[e] + dy>>
    IN  IF \E order \in OrdersOf(entities[EngineGameMap]) :
                    get_blocking_entity_at_location(order, d[1], d[2]) # None
        THEN NoOp /\ lookups' = {}
        ELSE /\ move(e, dx, dy)
             /\ outcome' = Returned
             /\ printed' = None
             /\ lookups' = {}

\* MovementAction.perform
MovementAction_perform(e, dx, dy) ==
    LET eng == Action_engine(e)
        d == dest_xy(e, dx, dy)
        read == {[grid |-> "walkable", m |-> eng.game_map, at |-> d]}
    IN  IF ~eng.ok THEN Raises(AttributeError)
        ELSE IF ~in_bounds(eng.game_map, d[1], d[2])
        THEN NoOp /\ lookups' = {}
        ELSE IF ~tiles[eng.game_map][d]
        THEN NoOp /\ lookups' = read
        ELSE IF \E order \in OrdersOf(entities[eng.game_map]) :
                    get_blocking_entity_at_location(order, d[1], d[2]) # None
        THEN NoOp /\ lookups' = read
        ELSE /\ move(e, dx, dy)
             /\ outcome' = Returned
             /\ printed' = None
             /\ lookups' = read

\* Melee on the engine's map that pushes its target one step on
MeleeAction_perform_knockback(e, dx, dy) ==
    \E order \in OrdersOf(entities[EngineGameMap]) :
        LET target == get_blocking_entity_at_location(order, x[e] + dx, y[e] + dy)
        IN  /\ outcome' = Returned
            /\ printed' = target
            /\ lookups' = {}
            /\ x' = [o \in Ents |-> IF o = target THEN x[o] + dx ELSE x[o]]
            /\ y' = [o \in Ents |-> IF o = target THEN y[o] + dy ELSE y[o]]

\* MeleeAction.perform (the class is spelt with an accent in actions.py)
MeleeAction_perform(e, dx, dy) ==
    LET eng == Action_engine(e)
    IN  IF ~eng.ok THEN Raises(AttributeError)
        ELSE \E order \in OrdersOf(entities[eng.game_map]) :
                /\ printed' = blocking_entity(order, e, dx, dy)
                /\ outcome' = Returned
                /\ lookups' = {}
                /\ UNCHANGED <<x, y>>

\* BumpAction.perform that moves the entity itself instead of dispatching
BumpAction_perform_moves(e, dx, dy) ==
    /\ x' = [x EXCEPT ![e] = @ + dx]
    /\ y' = [y EXCEPT ![e] = @ + dy]
    /\ outcome' = Returned
    /\ printed' = None
    /\ lookups' = {}

\* BumpAction.perform
BumpAction_perform(e, dx, dy) ==
    LET eng == Action_engine(e)
    IN  IF ~eng.ok THEN Raises(AttributeError)
        ELSE IF \E order \in OrdersOf(entities[eng.game_map]) :
                    blocking_entity(order, e, dx, dy) # None
        THEN MeleeAction_perform(e, dx, dy)
        ELSE MovementAction_perform(e, dx, dy)

\* The calls of the model ----------------------------------------------------

Cells == (0..(Width - 1)) \X (0..(Height - 1))

\* The caller drops the finished call and is free to make the next one; a
\* SystemExit is not caught, it ends the program.
Return ==
    /\ call # NoCall
    /\ outcome # SystemExit
    /\ call' = NoCall
    /\ outcome' = None
    /\ result' = None
    /\ printed' = None
    /\ setops' = <<>>
    /\ UNCHANGED <<exists, kind, x, y, blocks_movement, parent, ai, entities, tiles, visible, explored>>
    /\ UNCHANGED <<comp, cstate>>
    /\ lookups' = {}
    /\ frame' = NoFrame

\* e.place(px, py) and e.place(px, py, engine.game_map) during play
Place ==
    /\ call = NoCall
    /\ \E e \in Ents, px \in Xs, py \in Ys, gm \in {NoMap, EngineGameMap} :
        /\ exists[e]
        /\ call' = Called("place", e, px, py, gm)
        /\ place(e, px, py, gm)
    /\ result' = None
    /\ printed' = None
    /\ UNCHANGED <<exists, kind, blocks_movement, ai, tiles, visible, explored>>
    /\ UNCHANGED <<comp, cstate>>
    /\ lookups' = {}
    /\ frame' = NoFrame

\* e.place(px, py, gm) between maps
PlaceOn ==
    /\ call = NoCall
    /\ \E e \in Ents, c \in OwnCells, gm \in Maps \cup {NoMap} :
        /\ exists[e]
        /\ call' = Called("place", e, c[1], c[2], gm)
        /\ place(e, c[1], c[2], gm)
    /\ result' = None
    /\ printed' = None
    /\ UNCHANGED <<exists, kind, blocks_movement, ai, tiles, visible, explored>>
    /\ UNCHANGED <<comp, cstate>>
    /\ lookups' = {}
    /\ frame' = NoFrame

\* t.spawn(gm, sx, sy)
Spawn ==
    /\ call = NoCall
    /\ \E t \in Ents, c \in Ents, cell \in OwnCells, gm \in Maps :
        /\ exists[t]
        /\ ~exists[c]
        /\ call' = Called("spawn", t, cell[1], cell[2], gm)
        /\ spawn(t, gm, cell[1], cell[2], c)
    /\ printed' = None
    /\ lookups' = {}
    /\ frame' = NoFrame
    /\ UNCHANGED <<tiles, visible, explored>>

\* Entity(..., x, y, blocks_movement, parent)
NewEntity ==
    /\ call = NoCall
    /\ \E c \in Ents, cell \in OwnCells, bm \in BOOLEAN, par \in Maps \cup {None} :
        /\ ~exists[c]
        /\ call' = Called("Entity", c, cell[1], cell[2], par)
        /\ Entity_init(c, cell[1], cell[2], bm, par)
        /\ result' = c
    /\ printed' = None
    /\ lookups' = {}
    /\ frame' = NoFrame
    /\ UNCHANGED <<tiles, visible, explored, comp, cstate>>

\* A component of an actor is changed in place (a Fighter loses hit points,
\* an Inventory gains an item: components/, not part of the modelled files).
Mutate ==
    /\ call = NoCall
    /\ \E e \in Ents, k \in Components :
        /\ exists[e]
        /\ comp[e][k] # Unset
        /\ cstate[<<comp[e][k], k>>] = "initial"
        /\ cstate' = [cstate EXCEPT ![<<comp[e][k], k>>] = "changed"]
        /\ call' = Called("mutate", e, 0, 0, None)
    /\ outcome' = Returned
    /\ result' = None
    /\ printed' = None
    /\ setops' = <<>>
    /\ lookups' = {}
    /\ frame' = NoFrame
    /\ UNCHANGED <<exists, kind, x, y, blocks_movement, parent, ai, entities,
                   tiles, visible, explored, comp>>

\* An actor dies: its ai handle is cleared (components/fighter.py, not part of
\* the modelled files).
Die ==
    /\ call = NoCall
    /\ \E e \in Ents :
        /\ exists[e]
        /\ kind[e] = "Actor"
        /\ ai[e] # None
        /\ ai' = [ai EXCEPT ![e] = None]
        /\ call' = Called("die", e, 0, 0, None)
    /\ outcome' = Returned
    /\ result' = None
    /\ printed' = None
    /\ setops' = <<>>
    /\ UNCHANGED <<exists, kind, x, y, blocks_movement, parent, entities, tiles, visible, explored>>
    /\ UNCHANGED <<comp, cstate>>
    /\ lookups' = {}
    /\ frame' = NoFrame

\* MovementAction(e, dx, dy).perform()
Movement ==
    /\ call = NoCall
    /\ \E e \in Ents, dx \in Deltas, dy \in Deltas :
        /\ exists[e]
        /\ call' = Called("Movement", e, dx, dy, None)
        /\ MovementAction_perform(e, dx, dy)
    /\ result' = None
    /\ setops' = <<>>
    /\ UNCHANGED <<exists, kind, blocks_movement, parent, ai, entities, tiles, visible, explored>>
    /\ UNCHANGED <<comp, cstate>>
    /\ frame' = NoFrame

\* MeleeAction(e, dx, dy).perform()
Melee ==
    /\ call = NoCall
    /\ \E e \in Ents, dx \in Deltas, dy \in Deltas :
        /\ exists[e]
        /\ call' = Called("Melee", e, dx, dy, None)
        /\ MeleeAction_perform(e, dx, dy)
    /\ result' = None
    /\ setops' = <<>>
    /\ UNCHANGED <<exists, kind, blocks_movement, parent, ai, entities, tiles, visible, explored>>
    /\ UNCHANGED <<comp, cstate>>
    /\ frame' = NoFrame

\* BumpAction(e, dx, dy).perform()
Bump ==
    /\ call = NoCall
    /\ \E e \in Ents, dx \in Deltas, dy \in Deltas :
        /\ exists[e]
        /\ call' = Called("Bump", e, dx, dy, None)
        /\ BumpAction_perform(e, dx, dy)
    /\ result' = None
    /\ setops' = <<>>
    /\ UNCHANGED <<exists, kind, blocks_movement, parent, ai, entities, tiles, visible, explored>>
    /\ UNCHANGED <<comp, cstate>>
    /\ frame' = NoFrame

\* EscapeAction(e).perform()
Escape ==
    /\ call = NoCall
    /\ \E e \in Ents :
        /\ exists[e]
        /\ call' = Called("Escape", e, 0, 0, None)
        /\ EscapeAction_perform(e)
    /\ result' = None
    /\ setops' = <<>>
    /\ frame' = NoFrame
    /\ UNCHANGED <<exists, kind, blocks_movement, parent, ai, entities,
                   tiles, visible, explored, comp, cstate>>

\* m.render(console)
Render ==
    /\ call = NoCall
    /\ \E m \in Maps :
        /\ call' = Called("render", None, 0, 0, m)
        /\ \E order \in OrdersOf(entities[m]) : GameMap_render(m, order)
    /\ result' = None
    /\ printed' = None
    /\ setops' = <<>>
    /\ UNCHANGED <<exists, kind, x, y, blocks_movement, parent, ai, entities,
                   tiles, visible, explored, comp, cstate>>

\* m.get_actor_at_location(lx, ly)
GetActorAt ==
    /\ call = NoCall
    /\ \E m \in Maps, lx \in Xs, ly \in Ys :
        /\ call' = Called("get_actor_at_location", None, lx, ly, m)
        /\ \E order \in OrdersOf(entities[m]) :
                result' = get_actor_at_location(order, lx, ly)
    /\ outcome' = Returned
    /\ printed' = None
    /\ setops' = <<>>
    /\ UNCHANGED <<exists, kind, x, y, blocks_movement, parent, ai, entities, tiles, visible, explored>>
    /\ UNCHANGED <<comp, cstate>>
    /\ lookups' = {}
    /\ frame' = NoFrame

\* m.get_blocking_entity_at_location(lx, ly)
GetBlockingEntityAt ==
    /\ call = NoCall
    /\ \E m \in Maps, lx \in Xs, ly \in Ys :
        /\ call' = Called("get_blocking_entity_at_location", None, lx, ly, m)
        /\ \E order \in OrdersOf(entities[m]) :
                result' = get_blocking_entity_at_location(order, lx, ly)
    /\ outcome' = Returned
    /\ printed' = None
    /\ setops' = <<>>
    /\ UNCHANGED <<exists, kind, x, y, blocks_movement, parent, ai, entities, tiles, visible, explored>>
    /\ UNCHANGED <<comp, cstate>>
    /\ lookups' = {}
    /\ frame' = NoFrame

\* GameMap.__init__: the walkable grid.  A new map is all wall; the engine's
\* map has been dug out, leaving one wall cell.
GameMap_tiles(m) ==
    [c \in Cells |-> IF m = EngineGameMap THEN c # <<1, 0>> ELSE FALSE]

\* GameMap.visible and GameMap.explored: all False on a new map; on the
\* engine's map as a field-of-view update has left them (one cell explored
\* but no longer visible, the middle of the top row never seen).
GameMap_visible(m) ==
    [c \in Cells |->
        IF m = EngineGameMap THEN c[1] = Width - 1 \/ c = <<0, 0>> ELSE FALSE]
GameMap_explored(m) ==
    [c \in Cells |->
        IF m = EngineGameMap THEN GameMap_visible(m)[c] \/ c[2] = 0 ELSE FALSE]

\* Actor.__init__: an actor holds a Fighter and an Inventory of its own.
Actor_components(isActor) ==
    [e \in Ents |-> [k \in Components |-> IF isActor[e] THEN e ELSE Unset]]

\* Play: two entities stand on the engine's map, b an actor or an item.
Init ==
    /\ exists = [e \in Ents |-> e \in {"a", "b"}]
    /\ \E kb \in {"Actor", "Item"} :
        /\ kind = [e \in Ents |->
                    IF e = "a" THEN "Actor" ELSE IF e = "b" THEN kb ELSE Unset]
        /\ blocks_movement = [e \in Ents |-> e = "a" \/ (e = "b" /\ kb = "Actor")]
        /\ ai = [e \in Ents |->
                    IF e = "a" \/ (e = "b" /\ kb = "Actor") THEN "ai" ELSE Unset]
        /\ comp = Actor_components(
                    [e \in Ents |-> e = "a" \/ (e = "b" /\ kb = "Actor")])
    /\ x = [e \in Ents |-> IF e = "b" THEN Width - 1 ELSE 0]
    /\ y = [e \in Ents |-> IF e = "b" THEN Height - 1 ELSE 0]
    /\ parent = [e \in Ents |-> IF e \in {"a", "b"} THEN EngineGameMap ELSE Unset]
    /\ entities = [m \in Maps |-> IF m = EngineGameMap THEN {"a", "b"} ELSE {}]
    /\ tiles = [m \in Maps |-> GameMap_tiles(m)]
    /\ visible = [m \in Maps |-> GameMap_visible(m)]
    /\ explored = [m \in Maps |-> GameMap_explored(m)]
    /\ cstate = [o \in Ents \X Components |-> "initial"]
    /\ call = NoCall
    /\ outcome = None
    /\ result = None
    /\ printed = None
    /\ setops = <<>>
    /\ lookups = {}
    /\ frame = NoFrame

\* Start of the program: a and b are constructed and belong to no map; the
\* first map was constructed with some of them as its `entities` argument.
InitOwn ==
    /\ exists = [e \in Ents |-> e \in {"a", "b"}]
    /\ kind = [e \in Ents |->
                IF e = "a" THEN "Actor" ELSE IF e = "b" THEN "Item" ELSE Unset]
    /\ blocks_movement = [e \in Ents |-> e = "a"]
    /\ ai = [e \in Ents |-> IF e = "a" THEN "ai" ELSE Unset]
    /\ comp = Actor_components([e \in Ents |-> e = "a"])
    /\ x = [e \in Ents |-> 0]
    /\ y = [e \in Ents |-> 0]
    /\ parent = [e \in Ents |-> Unset]
    /\ \E given \in SUBSET {"a", "b"} :
        entities = [m \in Maps |-> IF m = EngineGameMap THEN given ELSE {}]
    /\ tiles = [m \in Maps |-> GameMap_tiles(m)]
    /\ visible = [m \in Maps |-> GameMap_visible(m)]
    /\ explored = [m \in Maps |-> GameMap_explored(m)]
    /\ cstate = [o \in Ents \X Components |-> "initial"]
    /\ call = NoCall
    /\ outcome = None
    /\ result = None
    /\ printed = None
    /\ setops = <<>>
    /\ lookups = {}
    /\ frame = NoFrame

Next ==
    \/ Place
    \/ Die
    \/ Movement
    \/ Melee
    \/ Bump
    \/ Escape
    \/ Render
    \/ GetActorAt
    \/ GetBlockingEntityAt
    \/ Return

Spec == Init /\ [][Next]_vars

NextOwn ==
    \/ NewEntity
    \/ Spawn
    \/ PlaceOn
    \/ Mutate
    \/ Return

SpecOwn == InitOwn /\ [][NextOwn]_vars

\* Properties ----------------------------------------------------------------

\* Where entity o stood before the call in `call`.
PrePos(o) == IF o = call.e THEN <<call.x0, call.y0>> ELSE <<x[o], y[o]>>

\* The destination of the directional action in `call`.
Dest == <<call.x0 + call.a, call.y0 + call.b>>

\* The entities registered on a map the acting entity was registered on.
Neighbours == UNION {entities[m] : m \in call.maps0}

\* The blocking entities that stood at the destination before the call.
BlockersAtDest == {o \in Neighbours : blocks_movement[o] /\ PrePos(o) = Dest}

DestInBounds == 0 <= Dest[1] /\ Dest[1] < Width /\ 0 <= Dest[2] /\ Dest[2] < Height

Directional == {"Movement", "Melee", "Bump"}

\* C1: a Movement whose destination is outside [0,width) x [0,height) leaves
\* the entity where it stood.
C1_OutOfBoundsMovementStays ==
    (call.op = "Movement" /\ call.maps0 # {} /\ ~DestInBounds)
        => (x[call.e] = call.x0 /\ y[call.e] = call.y0)

\* C1 witness: the actor in the last column has performed Movement(1, 0) and
\* is still in the last column.
C1_Witness ==
    /\ call.op = "Movement"
    /\ call.maps0 # {}
    /\ call.x0 = Width - 1
    /\ call.a = 1
    /\ call.b = 0
    /\ x[call.e] = Width - 1

\* C2: a Movement whose destination is in bounds, walkable and free of
\* blocking entities puts the entity exactly on (x + dx, y + dy).
C2_LegalMovementMoves ==
    (/\ call.op = "Movement"
     /\ call.maps0 # {}
     /\ DestInBounds
     /\ \A m \in call.maps0 : tiles[m][Dest]
     /\ BlockersAtDest = {})
        => (x[call.e] = Dest[1] /\ y[call.e] = Dest[2])

\* C3: with another, blocking entity at the destination, Movement leaves the entity
\* where it stood, and Bump resolves a melee against a blocking entity of the
\* destination and leaves the entity where it stood.
C3_BlockedMovementStaysBumpAttacks ==
    (call.op \in {"Movement", "Bump"} /\ BlockersAtDest \ {call.e} # {})
        => /\ x[call.e] = call.x0
           /\ y[call.e] = call.y0
           /\ call.op = "Bump" => (outcome = Returned /\ printed \in BlockersAtDest)

\* C4: every Bump step is a step Melee could have taken from the same state
\* when a blocking entity stands at the destination, and a step Movement
\* could have taken otherwise (same positions, same ending, same message).
C4_BumpIsMeleeOrMovement ==
    [][call'.op = "Bump" =>
        LET e == call'.e
            dx == call'.a
            dy == call'.b
            blockers == {o \in entities[EngineGameMap] :
                            /\ blocks_movement[o]
                            /\ x[o] = x[e] + dx
                            /\ y[o] = y[e] + dy}
        IN  IF blockers # {}
            THEN MeleeAction_perform(e, dx, dy)
            ELSE MovementAction_perform(e, dx, dy)]_vars

\* C4 witness: Bump has been performed towards a cell where another blocking
\* entity stands.
C4_Witness ==
    /\ call.op = "Bump"
    /\ BlockersAtDest \ {call.e} # {}

\* C5: Movement, Melee and Bump never end in an exception.
C5_ActionsNeverRaise ==
    call.op \in Directional => outcome = Returned

\* C6: after place(entity, x, y, new_map) the entity is in at most one map's
\* entity set, and in some map's set if it was in one before.
C6_PlaceKeepsOneRegistration ==
    (call.op = "place" /\ call.m \in Maps)
        => LET now == {m \in Maps : call.e \in entities[m]}
           IN  /\ Cardinality(now) <= 1
               /\ call.maps0 # {} => now # {}

\* C7: an entity whose parent is map M is in M's entity set; and a place that
\* takes it from its parent M to another map N removes it from M's set first
\* and then adds it to N's set.
C7_ParentMapHoldsEntity ==
    /\ \A e \in Ents :
        (exists[e] /\ parent[e] \in Maps) => e \in entities[parent[e]]
    /\ (/\ call.op = "place"
        /\ call.parent0 \in Maps
        /\ call.m \in Maps
        /\ call.m # call.parent0)
            => /\ setops = <<[op |-> "remove", m |-> call.parent0],
                             [op |-> "add", m |-> call.m]>>
               /\ call.e \notin entities[call.parent0]
               /\ call.e \in entities[call.m]
               /\ parent[call.e] = call.m

\* C7 witness: the spawned or constructed entity c has been placed from the
\* first map, its parent, onto the second.
C7_Witness ==
    /\ call.op = "place"
    /\ call.e = "c"
    /\ call.parent0 = "M1"
    /\ call.m = "M2"
    /\ parent["c"] = "M2"

\* What get_blocking_entity_at_location(lx, ly) can return on map m.
BlockingResults(m, lx, ly) ==
    {get_blocking_entity_at_location(order, lx, ly) : order \in OrdersOf(entities[m])}

\* The blocking entities of map m other than e at (lx, ly).
OtherBlockers(m, e, lx, ly) ==
    {o \in entities[m] \ {e} : blocks_movement[o] /\ x[o] = lx /\ y[o] = ly}

\* C8 as claimed: after place(entity, x, y), blocking_entity_at(x, y) on the
\* entity's map returns that entity iff its blocks_movement flag is true,
\* whatever else stands at (x, y).
C8_PlacedEntityIsTheBlocker ==
    (call.op = "place" /\ outcome = Returned)
        => \A m \in Maps : call.e \in entities[m] =>
            \A r \in BlockingResults(m, call.a, call.b) :
                (r = call.e) <=> blocks_movement[call.e]

\* C8 amended: after place(entity, x, y), blocking_entity_at(x, y) on the
\* entity's map never returns the entity if its flag is false; if the flag
\* is true it returns a blocking entity standing at (x, y), and that entity
\* itself when no other blocking entity of the map stands there.
C8_PlacedEntityBlocksItsCell ==
    (call.op = "place" /\ outcome = Returned)
        => \A m \in Maps : call.e \in entities[m] =>
            \A r \in BlockingResults(m, call.a, call.b) :
                /\ r = call.e => blocks_movement[call.e]
                /\ blocks_movement[call.e] =>
                    /\ r \in entities[m]
                    /\ blocks_movement[r]
                    /\ x[r] = call.a /\ y[r] = call.b
                    /\ OtherBlockers(m, call.e, call.a, call.b) = {} => r = call.e

\* C8 witness: a blocking entity has been placed on a cell of its map where
\* another blocking entity stands.
C8_Witness ==
    /\ call.op = "place"
    /\ outcome = Returned
    /\ blocks_movement[call.e]
    /\ call.e \in entities[EngineGameMap]
    /\ OtherBlockers(EngineGameMap, call.e, call.a, call.b) # {}

\* The actors of map m at (lx, ly), and those of them whose ai is present.
ActorsAt(m, lx, ly) ==
    {e \in entities[m] : kind[e] = "Actor" /\ x[e] = lx /\ y[e] = ly}
LivingAt(m, lx, ly) == {e \in ActorsAt(m, lx, ly) : ai[e] = "ai"}
DeadAt(m, lx, ly) == {e \in ActorsAt(m, lx, ly) : ai[e] = None}

\* C9: actor_at(x, y) returns none where no actor stands, the living actor
\* where exactly one living actor stands, and none where only dead actors
\* stand.
C9_ActorAt ==
    call.op = "get_actor_at_location" =>
        /\ ActorsAt(call.m, call.a, call.b) = {} => result = None
        /\ Cardinality(LivingAt(call.m, call.a, call.b)) = 1
                => result \in LivingAt(call.m, call.a, call.b)
        /\ (/\ ActorsAt(call.m, call.a, call.b) # {}
            /\ LivingAt(call.m, call.a, call.b) = {}) => result = None

\* C9 witness: actor_at has been asked for a cell where only a dead actor
\* stands, and has answered none.
C9_Witness ==
    /\ call.op = "get_actor_at_location"
    /\ DeadAt(call.m, call.a, call.b) # {}
    /\ LivingAt(call.m, call.a, call.b) = {}
    /\ result = None

\* C10 as claimed: where a dead actor and a living actor share a cell,
\* actor_at can return none (some iteration order of the entity set makes it).
C10_DeadActorCanHideLivingOne ==
    \A m \in Maps, lx \in Xs, ly \in Ys :
        (DeadAt(m, lx, ly) # {} /\ LivingAt(m, lx, ly) # {})
            => \E order \in OrdersOf(entities[m]) :
                    get_actor_at_location(order, lx, ly) = None

\* C10 amended: where a dead actor and a living actor share a cell, actor_at
\* returns a living actor of that cell, never none.
C10_LivingActorIsFound ==
    (/\ call.op = "get_actor_at_location"
     /\ DeadAt(call.m, call.a, call.b) # {}
     /\ LivingAt(call.m, call.a, call.b) # {})
        => result \in LivingAt(call.m, call.a, call.b)

\* C10 witness: actor_at has been asked for a cell shared by a dead and a
\* living actor and has returned the living one.
C10_Witness ==
    /\ call.op = "get_actor_at_location"
    /\ DeadAt(call.m, call.a, call.b) # {}
    /\ result \in LivingAt(call.m, call.a, call.b)

\* The state of the component objects entity e holds.
ComponentState(e) ==
    [k \in Components |->
        IF comp[e][k] = Unset THEN Unset ELSE cstate[<<comp[e][k], k>>]]

\* The maps whose entity set holds e.
MapsHolding(e) == {m \in Maps : e \in entities[m]}

\* The position, owner, registrations and component state of entity e.
EntityState(e) ==
    <<exists[e], x[e], y[e], parent[e], MapsHolding(e), ComponentState(e)>>

\* What a step that is a spawn call establishes and keeps.
C11_SpawnStep ==
    (call = NoCall /\ call'.op = "spawn") =>
        \E t \in Ents, c \in Ents :
            /\ t = call'.e
            /\ c = result'
            /\ c # t
            /\ ~exists[c]
            /\ exists'[c]
            /\ x'[c] = call'.a
            /\ y'[c] = call'.b
            /\ parent'[c] = call'.m
            /\ c \in entities'[call'.m]
            /\ EntityState(t)' = EntityState(t)

\* What a step that places an entity or changes its component keeps.
C11_MutationStep ==
    (call = NoCall /\ call'.op \in {"place", "mutate"}) =>
        \A f \in Ents : f # call'.e => EntityState(f)' = EntityState(f)

\* C11: spawn(template, map, x, y) returns a new entity, not the template,
\* that stands at (x, y), is owned by map and is in map's entity set, and
\* leaves the template's position, owner and registrations as they were;
\* placing an entity or changing its Fighter/Inventory afterwards changes the
\* state of no other entity, so a clone's changes never reach its template.
C11_SpawnedCloneIsIndependent ==
    [][C11_SpawnStep /\ C11_MutationStep]_vars

\* C11 witness: a clone of the actor a has had its Fighter changed while the
\* Fighter of a is as it was.
C11_Witness ==
    /\ call.op = "mutate"
    /\ call.e = "c"
    /\ comp["c"]["fighter"] = "c"
    /\ cstate[<<"c", "fighter">>] = "changed"
    /\ cstate[<<"a", "fighter">>] = "initial"

\* An index a grid can be read at without numpy wrapping or raising.
InGrid(at) == 0 <= at[1] /\ at[1] < Width /\ 0 <= at[2] /\ at[2] < Height

\* C12: every lookup a call makes in the walkable grid (Movement) or in the
\* visible grid (render) is at an (x, y) with 0 <= x < width, 0 <= y < height.
C12_LookupsInBounds == \A l \in lookups : InGrid(l.at)

\* C13: Escape changes no entity, entity set or grid and ends in the
\* termination signal SystemExit; after an Escape no further call is made.
C13_EscapeEndsSession ==
    [][/\ (call = NoCall /\ call'.op = "Escape") =>
            /\ outcome' = SystemExit
            /\ UNCHANGED <<exists, kind, x, y, blocks_movement, parent, ai,
                           entities, tiles, visible, explored, comp, cstate>>
       /\ call.op # "Escape"]_vars

\* C13 witness: an Escape has been performed on a map where an entity has
\* been moved from its first cell.
C13_Witness ==
    /\ call.op = "Escape"
    /\ outcome = SystemExit
    /\ <<x["b"], y["b"]>> # <<Width - 1, Height - 1>>

\* The destination of the Movement in `call` is not walkable on a map the
\* entity is registered on.
DestIsWall == \E m \in call.maps0 : ~tiles[m][Dest]

\* C14: a Movement whose destination is in bounds and not walkable leaves the
\* entity where it stood, with or without an entity on the destination.
C14_MovementIntoWallStays ==
    (call.op = "Movement" /\ call.maps0 # {} /\ DestInBounds /\ DestIsWall)
        => (x[call.e] = call.x0 /\ y[call.e] = call.y0)

\* C14 witness: a Movement toward the wall cell, with nothing standing on it.
C14_Witness ==
    /\ call.op = "Movement"
    /\ call.maps0 # {}
    /\ DestInBounds
    /\ DestIsWall
    /\ BlockersAtDest = {}
    /\ <<call.a, call.b>> # <<0, 0>>

\* C15: Melee prints its message exactly when a blocking entity stands at the
\* destination, the message names such an entity, and the acting entity keeps
\* its position.
C15_MeleeMessageIffBlocker ==
    (call.op = "Melee" /\ call.maps0 # {}) =>
        /\ (printed # None) <=> (BlockersAtDest # {})
        /\ printed # None => printed \in BlockersAtDest
        /\ x[call.e] = call.x0 /\ y[call.e] = call.y0

\* The entities of map m that stand on a cell of the grid that is visible.
VisibleStanding(m) ==
    {e \in entities[m] : InGrid(<<x[e], y[e]>>) /\ visible[m][<<x[e], y[e]>>]}

\* The value of an entity's render-order tier.
TierOf(e) == CHOOSE v \in DOMAIN RenderOrder : RenderOrder[v] = render_order(e)

\* C16: render colours each cell lit if visible, else unlit if explored, else
\* fog, and draws exactly the entities of the map's set that stand on visible
\* cells, each once, lower render-order tiers before higher ones.
C16_RenderDrawsVisibleInTierOrder ==
    call.op = "render" =>
        /\ \A c \in Cells :
                frame.bg[c] = IF visible[call.m][c] THEN "lit"
                              ELSE IF explored[call.m][c] THEN "unlit"
                              ELSE "FOG"
        /\ {frame.drawn[i].e : i \in DOMAIN frame.drawn} = VisibleStanding(call.m)
        /\ Len(frame.drawn) = Cardinality(VisibleStanding(call.m))
        /\ \A i, j \in DOMAIN frame.drawn :
                i < j => TierOf(frame.drawn[i].e) <= TierOf(frame.drawn[j].e)

\* No two blocking entities of map m stand on the same cell.
NoSharedCell(m) ==
    \A e, f \in entities[m] :
        (e # f /\ blocks_movement[e] /\ blocks_movement[f])
            => <<x[e], y[e]>> # <<x[f], y[f]>>

\* C17: a Movement or Bump, by any entity and with any displacement, on a
\* map where no two blocking entities share a cell leaves no two blocking
\* entities of that map on a shared cell.
C17_BlockersKeepApart ==
    [][(call = NoCall /\ call'.op \in {"Movement", "Bump"}) =>
            \A m \in Maps : NoSharedCell(m) => NoSharedCell(m)']_vars

\* C17 witness: a blocking entity has performed Movement toward the cell of
\* another blocking entity, and no two blocking entities share a cell.
C17_Witness ==
    /\ call.op = "Movement"
    /\ blocks_movement[call.e]
    /\ BlockersAtDest \ {call.e} # {}
    /\ \A m \in Maps : NoSharedCell(m)

\* Every entity of map m stands on a walkable cell of the grid.
AllOnFloor(m) ==
    \A e \in entities[m] : InGrid(<<x[e], y[e]>>) /\ tiles[m][<<x[e], y[e]>>]

\* C18: a Movement, Melee or Bump on a map whose entities all stand on
\* in-bounds walkable cells leaves them all on in-bounds walkable cells.
C18_EntitiesStayOnFloor ==
    [][(call = NoCall /\ call'.op \in Directional) =>
            \A m \in Maps : AllOnFloor(m) => AllOnFloor(m)']_vars

\* C18 witness: with every entity on the floor, a Bump has been performed
\* toward a cell that is outside the grid or a wall.
C18_Witness ==
    /\ call.op = "Bump"
    /\ call.maps0 # {}
    /\ \A m \in Maps : AllOnFloor(m)
    /\ (~DestInBounds \/ DestIsWall)

\* C19: a Movement, Melee or Bump by entity E changes no other entity's
\* position, no map's entity set, no tile, visible or explored grid and no
\* actor's ai handle.
C19_ActionsChangeOnlyOwnPosition ==
    [][(call = NoCall /\ call'.op \in Directional) =>
            /\ \A f \in Ents : f # call'.e => (x'[f] = x[f] /\ y'[f] = y[f])
            /\ UNCHANGED <<entities, tiles, visible, explored, ai>>]_vars

\* C19 witness: a Melee has been performed toward the cell of another
\* blocking entity, which stands where it stood.
C19_Witness ==
    /\ call.op = "Melee"
    /\ BlockersAtDest \ {call.e} # {}
    /\ <<call.a, call.b>> # <<0, 0>>

\* C20: Bump(E, 0, 0) by a blocking entity E registered on a map attacks E
\* itself and leaves E where it stood; a Bump with a non-zero displacement
\* that attacks, attacks an entity other than E.
C20_BumpInPlaceTargetsSelf ==
    (call.op = "Bump" /\ call.maps0 # {} /\ blocks_movement[call.e]) =>
        IF <<call.a, call.b>> = <<0, 0>>
        THEN printed = call.e /\ x[call.e] = call.x0 /\ y[call.e] = call.y0
        ELSE printed # call.e

====
